---- MODULE Spec2Model ----
(***************************************************************************)
(* Length-prefixed messaging protocol of the chat exercises: the client    *)
(* (lesson-16/client), the shared receive path (lesson-16/shared), the     *)
(* asynchronous server (lesson-16/server) and the synchronous server       *)
(* (lesson-15/server, same loop as lesson-13, lesson-11 and lesson-09).    *)
(*                                                                         *)
(* A connection is identified with its peer address.  Bytes are naturals   *)
(* below 128, so that four of them fit TLC's integers as a big-endian u32. *)
(***************************************************************************)
EXTENDS Integers, Sequences, FiniteSets, TLC

\* ---------------------------------------------------------------- bounds
MaxConns == 2      \* connections that are ever opened
MaxSends == 2      \* messages written over all connections together

Conns == 1..MaxConns

\* ------------------------------------------------------ message codec
\* enum MessageType: bincode encodes the variant index in declaration order
TagFile == 0
TagImage == 1
TagText == 2
TagQuit == 3

File(name, content) == [kind |-> "File", str |-> name, bytes |-> content]
Image(content) == [kind |-> "Image", str |-> <<>>, bytes |-> content]
Text(s) == [kind |-> "Text", str |-> s, bytes |-> <<>>]
Quit == [kind |-> "Quit", str |-> <<>>, bytes |-> <<>>]

\* the messages a client sends in the model: "h", file "f" holding <<7>>,
\* a one-byte image, and Quit
MessageType == {Text(<<104>>), File(<<102>>, <<7>>), Image(<<9>>), Quit}

RECURSIVE to_le_bytes(_, _)
\* n as k little-endian bytes (bincode's fixed-width integers)
to_le_bytes(n, k) ==
    IF k = 0 THEN <<>> ELSE <<n % 256>> \o to_le_bytes(n \div 256, k - 1)

\* u32::to_be_bytes
to_be_bytes(n) ==
    <<(n \div 16777216) % 256, (n \div 65536) % 256, (n \div 256) % 256, n % 256>>

\* u32::from_be_bytes on a 4-byte sequence
from_be_bytes(b) == ((b[1] * 256 + b[2]) * 256 + b[3]) * 256 + b[4]

\* length-prefixed bytes as bincode writes a String or a Vec<u8>
ser_bytes(s) == to_le_bytes(Len(s), 8) \o s

\* bincode::serialize(&message): u32 LE variant index, then the fields
serialize(m) ==
    CASE m.kind = "File" -> to_le_bytes(TagFile, 4) \o ser_bytes(m.str) \o ser_bytes(m.bytes)
      [] m.kind = "Image" -> to_le_bytes(TagImage, 4) \o ser_bytes(m.bytes)
      [] m.kind = "Text" -> to_le_bytes(TagText, 4) \o ser_bytes(m.str)
      [] m.kind = "Quit" -> to_le_bytes(TagQuit, 4)

\* a u64 LE length at offset off of buf; -1 when the buffer is too short or
\* the length exceeds what any buffer of the model holds
read_u64(buf, off) ==
    IF Len(buf) < off + 8 THEN -1
    ELSE IF \E i \in 4..8 : buf[off + i] # 0 THEN -1
    ELSE buf[off + 1] + 256 * buf[off + 2] + 65536 * buf[off + 3]

\* a length-prefixed byte string at offset off of buf
read_bytes(buf, off) ==
    LET n == read_u64(buf, off) IN
    IF n < 0 \/ off + 8 + n > Len(buf)
    THEN [ok |-> FALSE, val |-> <<>>, next |-> off]
    ELSE [ok |-> TRUE, val |-> SubSeq(buf, off + 9, off + 8 + n), next |-> off + 8 + n]

\* bincode::deserialize(&buffer): trailing bytes are not an error
deserialize(buf) ==
    LET bad == [ok |-> FALSE, msg |-> Quit] IN
    IF Len(buf) < 4 THEN bad
    ELSE IF buf[2] # 0 \/ buf[3] # 0 \/ buf[4] # 0 THEN bad
    ELSE IF buf[1] = TagQuit THEN [ok |-> TRUE, msg |-> Quit]
    ELSE IF buf[1] = TagText THEN
        LET s == read_bytes(buf, 4) IN
        IF s.ok THEN [ok |-> TRUE, msg |-> Text(s.val)] ELSE bad
    ELSE IF buf[1] = TagImage THEN
        LET b == read_bytes(buf, 4) IN
        IF b.ok THEN [ok |-> TRUE, msg |-> Image(b.val)] ELSE bad
    ELSE IF buf[1] = TagFile THEN
        LET s == read_bytes(buf, 4) IN
        IF ~s.ok THEN bad
        ELSE LET b == read_bytes(buf, s.next) IN
             IF b.ok THEN [ok |-> TRUE, msg |-> File(s.val, b.val)] ELSE bad
    ELSE bad

\* ------------------------------------------------------------ transport
\* the client's send_message: the serialized message and nothing else
send_message(m) == serialize(m)

\* a frame as the protocol defines it: 4-byte big-endian length, payload
write_frame(payload) == to_be_bytes(Len(payload)) \o payload

\* what a raw TCP peer may put on the wire besides well-formed messages
Malformed == [kind |-> "Malformed", str |-> <<>>, bytes |-> <<4, 0, 0, 0>>]
EmptyFrame == [kind |-> "Empty", str |-> <<>>, bytes |-> <<>>]
PeerItems == MessageType \cup {Malformed, EmptyFrame}
payload_of(x) == IF x.kind \in {"Malformed", "Empty"} THEN x.bytes ELSE serialize(x)

Drop(s, n) == SubSeq(s, n + 1, Len(s))

\* receive_len without the len == 0 test: a zero-length payload is read
receive_len_zero_payload(buf, closed) ==
    IF Len(buf) >= 4 THEN
        [st |-> "payload", why |-> "", rest |-> Drop(buf, 4),
         need |-> from_be_bytes(SubSeq(buf, 1, 4))]
    ELSE IF closed THEN
        [st |-> "none", why |-> IF Len(buf) = 0 THEN "Closed" ELSE "Truncated",
         rest |-> <<>>, need |-> 0]
    ELSE [st |-> "block", why |-> "", rest |-> buf, need |-> 0]

\* receive_message up to its first read_exact: the 4 length bytes
receive_len(buf, closed) ==
    IF Len(buf) >= 4 THEN
        LET len == from_be_bytes(SubSeq(buf, 1, 4)) IN
        IF len = 0
        THEN [st |-> "none", why |-> "Empty", rest |-> Drop(buf, 4), need |-> 0]
        ELSE [st |-> "payload", why |-> "", rest |-> Drop(buf, 4), need |-> len]
    ELSE IF closed THEN
        [st |-> "none", why |-> IF Len(buf) = 0 THEN "Closed" ELSE "Truncated",
         rest |-> <<>>, need |-> 0]
    ELSE [st |-> "block", why |-> "", rest |-> buf, need |-> 0]

\* receive_payload that decodes the bytes it got when the peer closes early
receive_payload_short(buf, closed, len) ==
    IF Len(buf) >= len \/ closed THEN
        LET n == IF Len(buf) >= len THEN len ELSE Len(buf)
            d == deserialize(SubSeq(buf, 1, n))
        IN  IF d.ok
            THEN [st |-> "some", why |-> d.msg.kind, rest |-> Drop(buf, n), msg |-> d.msg]
            ELSE [st |-> "none", why |-> "DecodeError", rest |-> Drop(buf, n), msg |-> Quit]
    ELSE [st |-> "block", why |-> "", rest |-> buf, msg |-> Quit]

\* receive_payload that takes every byte that has arrived as soon as the
\* payload is complete, the bytes after the payload included
receive_payload_greedy(buf, closed, len) ==
    IF Len(buf) >= len THEN
        LET d == deserialize(SubSeq(buf, 1, len)) IN
        IF d.ok
        THEN [st |-> "some", why |-> d.msg.kind, rest |-> <<>>, msg |-> d.msg]
        ELSE [st |-> "none", why |-> "DecodeError", rest |-> <<>>, msg |-> Quit]
    ELSE IF closed THEN
        [st |-> "none", why |-> "Truncated", rest |-> <<>>, msg |-> Quit]
    ELSE [st |-> "block", why |-> "", rest |-> buf, msg |-> Quit]

\* receive_payload whose read keeps waiting for the missing bytes after the
\* peer has closed
receive_payload_wait(buf, closed, len) ==
    IF Len(buf) >= len THEN
        LET d == deserialize(SubSeq(buf, 1, len)) IN
        IF d.ok
        THEN [st |-> "some", why |-> d.msg.kind, rest |-> Drop(buf, len), msg |-> d.msg]
        ELSE [st |-> "none", why |-> "DecodeError", rest |-> Drop(buf, len), msg |-> Quit]
    ELSE [st |-> "block", why |-> "", rest |-> buf, msg |-> Quit]

\* receive_message from its second read_exact: the payload and its decoding
receive_payload(buf, closed, len) ==
    IF Len(buf) >= len THEN
        LET d == deserialize(SubSeq(buf, 1, len)) IN
        IF d.ok
        THEN [st |-> "some", why |-> d.msg.kind, rest |-> Drop(buf, len), msg |-> d.msg]
        ELSE [st |-> "none", why |-> "DecodeError", rest |-> Drop(buf, len), msg |-> Quit]
    ELSE IF closed THEN
        [st |-> "none", why |-> "Truncated", rest |-> <<>>, msg |-> Quit]
    ELSE [st |-> "block", why |-> "", rest |-> buf, msg |-> Quit]

\* ------------------------------------------------- client command words
\* input lines are sequences of character codes, without the line end
Space == 32
DotQuit == <<46, 113, 117, 105, 116>>
DotFile == <<46, 102, 105, 108, 101>>
DotImage == <<46, 105, 109, 97, 103, 101>>

RECURSIVE trim_start(_)
trim_start(s) == IF s # <<>> /\ Head(s) = Space THEN trim_start(Tail(s)) ELSE s

RECURSIVE trim_end(_)
trim_end(s) ==
    IF s # <<>> /\ s[Len(s)] = Space THEN trim_end(SubSeq(s, 1, Len(s) - 1)) ELSE s

\* str::trim
trim(s) == trim_end(trim_start(s))

\* str::starts_with
starts_with(s, p) == Len(s) >= Len(p) /\ SubSeq(s, 1, Len(p)) = p

RECURSIVE trim_start_matches(_, _)
\* str::trim_start_matches: the prefix is removed as often as it occurs
trim_start_matches(s, p) ==
    IF p # <<>> /\ starts_with(s, p) THEN trim_start_matches(Drop(s, Len(p)), p) ELSE s

\* the client's file system: "f" is a file holding <<7>>, "i" an image file
\* whose PNG encoding is <<9>>; no other path exists
PathF == <<102>>
PathI == <<105>>

\* File::open and read_to_end
read_file(path) ==
    IF path = PathF THEN [ok |-> TRUE, val |-> <<7>>]
    ELSE IF path = PathI THEN [ok |-> TRUE, val |-> <<8>>]
    ELSE [ok |-> FALSE, val |-> <<>>]

\* read_and_convert_image: "f" is not in an image format
read_and_convert_image(path) ==
    IF path = PathI THEN [ok |-> TRUE, val |-> <<9>>] ELSE [ok |-> FALSE, val |-> <<>>]

\* the message the client's loop builds from one input line; ~ok when a `?`
\* leaves main with the error
build_message(line) ==
    LET inp == trim(line) IN
    IF inp = DotQuit THEN [ok |-> TRUE, msg |-> Quit]
    ELSE IF starts_with(inp, DotFile) THEN
        LET path == trim(trim_start_matches(inp, DotFile))
            f == read_file(path)
        IN  IF f.ok THEN [ok |-> TRUE, msg |-> File(path, f.val)]
            ELSE [ok |-> FALSE, msg |-> Quit]
    ELSE IF starts_with(inp, DotImage) THEN
        LET path == trim(trim_start_matches(inp, DotImage))
            i == read_and_convert_image(path)
        IN  IF i.ok THEN [ok |-> TRUE, msg |-> Image(i.val)]
            ELSE [ok |-> FALSE, msg |-> Quit]
    ELSE [ok |-> TRUE, msg |-> Text(inp)]

\* the input lines of the whole-system specifications: h, .quit, .file f
\* and .image i, which build the four messages of MessageType
MainLines == {<<104>>, DotQuit, DotFile \o <<Space>> \o PathF, DotImage \o <<Space>> \o PathI}

\* ----------------------------------------------------------------- state
VARIABLES
    cstate,      \* client side of each connection: "init", "conn", "eof", "closed"
    ckind,       \* who drives it: "client" (the client program) or "peer"
    input,       \* the lines each client has read from standard input
    sent,        \* what each client was asked to send, in order
    wire,        \* every byte each client has written, in order
    net,         \* bytes written and still on their way to the server
    stream,      \* bytes arrived at the server and not yet read
    backlog,     \* connections established and not yet accepted
    hpc,         \* position of each connection's handler
    need,        \* declared length the handler is reading
    rcv,         \* outcome of the handler's receive_message
    dispatched,  \* messages whose match arm the handler has run, in order
    errs,        \* "Error receiving message from client" lines per connection
    maps,        \* registry objects: 0 is the accept loop's map
    hmap,        \* the registry object each handler was given
    serving,     \* synchronous server: the connection start() is handling
    srv,         \* server process: "starting", "running", "stopped", "panicked"
    files,       \* the files the server has written: path and content
    now,         \* SystemTime::now() in seconds since the epoch
    reply,       \* bytes the server has written to each connection
    args,        \* the server's command-line arguments after the program name
    bound,       \* the address the listener is bound to, <<>> when none
    exitcode     \* exit status of the server process, -1 while it runs

vars == <<cstate, ckind, input, sent, wire, net, stream, backlog, hpc, need, rcv,
          dispatched, errs, maps, hmap, serving, srv,
          files, now, reply, args, bound, exitcode>>

\* the accept loop's HashMap
ServerMap == 0

\* the address lesson-15 and lesson-16 bind when started without arguments
Localhost11111 == <<"localhost", "11111">>

\* the address lesson-09 to lesson-13 bind when started without arguments
AnyPort == <<"0.0.0.0", "0">>

\* a server that has bound addr and has not accepted a connection yet
InitWith(addr) ==
    /\ cstate = [c \in Conns |-> "init"]
    /\ ckind = [c \in Conns |-> "none"]
    /\ input = [c \in Conns |-> <<>>]
    /\ sent = [c \in Conns |-> <<>>]
    /\ net = [c \in Conns |-> <<>>]
    /\ wire = [c \in Conns |-> <<>>]
    /\ stream = [c \in Conns |-> <<>>]
    /\ backlog = <<>>
    /\ hpc = [c \in Conns |-> "none"]
    /\ need = [c \in Conns |-> 0]
    /\ rcv = [c \in Conns |-> "none"]
    /\ dispatched = [c \in Conns |-> <<>>]
    /\ errs = [c \in Conns |-> 0]
    /\ maps = [i \in 0..MaxConns |-> {}]
    /\ hmap = [c \in Conns |-> ServerMap]
    /\ serving = 0
    /\ srv = "running"
    /\ files = {}
    /\ now = 0
    /\ reply = [c \in Conns |-> <<>>]
    /\ args = <<>>
    /\ bound = addr
    /\ exitcode = -1

Init == InitWith(Localhost11111)

Init13 == InitWith(AnyPort)

RECURSIVE SumLen(_, _)
SumLen(f, S) ==
    IF S = {} THEN 0
    ELSE LET c == CHOOSE x \in S : TRUE IN Len(f[c]) + SumLen(f, S \ {c})

TotalSent == SumLen(sent, Conns)

ServerVars == <<backlog, hpc, need, rcv, dispatched, errs, maps, hmap, serving, srv>>

EnvVars == <<files, now, reply, args, bound, exitcode>>

\* ------------------------------------------------------------ persistence
Slash == 47
Underscore == 95

\* "../files" and "../images", the directories of the lesson-16 server
FilesDir == <<46, 46, 47, 102, 105, 108, 101, 115>>
ImagesDir == <<46, 46, 47, 105, 109, 97, 103, 101, 115>>

\* "received_image", the name every image is stored under
ReceivedImage == <<114, 101, 99, 101, 105, 118, 101, 100, 95, 105, 109, 97, 103, 101>>

RECURSIVE to_string(_)
\* Display of an unsigned integer: its decimal digits
to_string(n) ==
    IF n < 10 THEN <<48 + n>> ELSE to_string(n \div 10) \o <<48 + (n % 10)>>

\* format!("{}/{}_{}", directory, timestamp, filename)
filepath(directory, timestamp, filename) ==
    directory \o <<Slash>> \o to_string(timestamp) \o <<Underscore>> \o filename

\* format!("{}{}_{}", directory, timestamp, filename) of the synchronous
\* servers, which pass the directory with its trailing separator
sync_filepath(directory, timestamp, filename) ==
    directory \o to_string(timestamp) \o <<Underscore>> \o filename

\* File::create(path) followed by write_all(content): a file that exists at
\* the path is truncated and rewritten
write_file(fs, path, content) ==
    {f \in fs : f.path # path} \cup {[path |-> path, content |-> content]}

\* Server::receive_file when the file can be created and written: the files
\* after it has returned Ok
receive_file(filename, content, directory) ==
    write_file(files, filepath(directory, now, filename), content)

\* receive_file of the synchronous servers
sync_receive_file(filename, content, directory) ==
    write_file(files, sync_filepath(directory, now, filename), content)

\* the arguments of receive_file in the File and Image arms
file_name(m) == IF m.kind = "File" THEN m.str ELSE ReceivedImage
file_dir(m) == IF m.kind = "File" THEN FilesDir ELSE ImagesDir

\* "../files/" and "../images/", the directories of the synchronous servers
sync_file_dir(m) == file_dir(m) \o <<Slash>>

\* exit status of a Rust process whose main thread panics
PanicExit == 101

\* ---------------------------------------------------------------- client
\* TcpStream::connect: the connection waits in the listener's queue
connect(c, k) ==
    /\ cstate[c] = "init"
    /\ cstate' = [cstate EXCEPT ![c] = "conn"]
    /\ ckind' = [ckind EXCEPT ![c] = k]
    /\ backlog' = Append(backlog, c)
    /\ UNCHANGED <<input, sent, wire, net, stream, hpc, need, rcv, dispatched,
                   errs, maps, hmap, serving, srv>>
    /\ UNCHANGED EnvVars

HasQuit(c) == Len(sent[c]) > 0 /\ sent[c][Len(sent[c])] = Quit

\* one turn of the client's loop: a message is built from the input line and
\* written with send_message; the loop ends after Quit
client_main(c, line) ==
    /\ cstate[c] = "conn" /\ ckind[c] = "client"
    /\ ~HasQuit(c)
    /\ TotalSent < MaxSends
    /\ input' = [input EXCEPT ![c] = Append(@, line)]
    /\ LET b == build_message(line) IN
        IF b.ok
        THEN /\ sent' = [sent EXCEPT ![c] = Append(@, b.msg)]
             /\ wire' = [wire EXCEPT ![c] = @ \o send_message(b.msg)]
             /\ stream' = [stream EXCEPT ![c] = @ \o send_message(b.msg)]
             /\ UNCHANGED cstate
        ELSE \* main returns the error: nothing is sent, the process ends
             /\ cstate' = [cstate EXCEPT ![c] = "closed"]
             /\ UNCHANGED <<sent, wire, stream>>
    /\ UNCHANGED <<ckind, net>>
    /\ UNCHANGED ServerVars
    /\ UNCHANGED EnvVars

\* a TCP peer that writes one well-delimited frame
peer_write_frame(c, x) ==
    /\ cstate[c] = "conn" /\ ckind[c] = "peer"
    /\ TotalSent < MaxSends
    /\ sent' = [sent EXCEPT ![c] = Append(@, x)]
    /\ wire' = [wire EXCEPT ![c] = @ \o write_frame(payload_of(x))]
    /\ stream' = [stream EXCEPT ![c] = @ \o write_frame(payload_of(x))]
    /\ UNCHANGED <<cstate, ckind, input, net>>
    /\ UNCHANGED ServerVars
    /\ UNCHANGED EnvVars

\* the client's main returns (or the peer goes away): the socket closes
close(c) ==
    /\ cstate[c] = "conn"
    /\ net[c] = <<>>
    /\ cstate' = [cstate EXCEPT ![c] = "closed"]
    /\ UNCHANGED <<ckind, input, sent, wire, net, stream>>
    /\ UNCHANGED ServerVars
    /\ UNCHANGED EnvVars

ClientVars == <<cstate, ckind, input, sent, wire, net>>

\* ------------------------------------------- asynchronous server (lesson-16)
\* start_accept that inserts the peer and hands the handler the loop's own
\* registry instead of a clone
start_accept_shared ==
    /\ srv = "running"
    /\ backlog # <<>>
    /\ LET c == Head(backlog) IN
        /\ backlog' = Tail(backlog)
        /\ hmap' = [hmap EXCEPT ![c] = ServerMap]
        /\ maps' = [maps EXCEPT ![ServerMap] = @ \cup {c}]
        /\ hpc' = [hpc EXCEPT ![c] = "read_len"]
    /\ UNCHANGED <<need, rcv, dispatched, errs, serving, srv>>
    /\ UNCHANGED <<ClientVars, stream>>
    /\ UNCHANGED EnvVars

\* one turn of start()'s accept loop: the registry is cloned for the handler
\* and the handler is spawned
start_accept ==
    /\ srv = "running"
    /\ backlog # <<>>
    /\ LET c == Head(backlog) IN
        /\ backlog' = Tail(backlog)
        /\ hmap' = [hmap EXCEPT ![c] = c]
        /\ maps' = [maps EXCEPT ![c] = maps[ServerMap]]
        /\ hpc' = [hpc EXCEPT ![c] = "read_len"]
    /\ UNCHANGED <<need, rcv, dispatched, errs, serving, srv>>
    /\ UNCHANGED <<ClientVars, stream>>
    /\ UNCHANGED EnvVars

\* listener.accept() returns an error for the next connection: `while let
\* Ok(..)` ends, start returns and the process ends with its tasks
start_accept_err ==
    /\ srv = "running"
    /\ backlog # <<>>
    /\ backlog' = Tail(backlog)
    /\ srv' = "stopped"
    /\ UNCHANGED <<hpc, need, rcv, dispatched, errs, maps, hmap, serving>>
    /\ UNCHANGED <<ClientVars, stream>>
    /\ exitcode' = 0
    /\ UNCHANGED <<files, now, reply, args, bound>>

\* handle_client_len whose read does not wait: bytes that have not arrived
\* count as the end of the stream
handle_client_len_no_wait(c) ==
    /\ srv = "running"
    /\ hpc[c] = "read_len"
    /\ LET r == receive_len(stream[c], TRUE) IN
        /\ r.st # "block"
        /\ stream' = [stream EXCEPT ![c] = r.rest]
        /\ IF r.st = "payload"
           THEN /\ hpc' = [hpc EXCEPT ![c] = "read_payload"]
                /\ need' = [need EXCEPT ![c] = r.need]
                /\ UNCHANGED <<rcv, errs>>
           ELSE /\ hpc' = [hpc EXCEPT ![c] = "save"]
                /\ rcv' = [rcv EXCEPT ![c] = r.why]
                /\ errs' = [errs EXCEPT ![c] = @ + 1]
                /\ UNCHANGED need
    /\ UNCHANGED <<backlog, dispatched, maps, hmap, serving, srv>>
    /\ UNCHANGED ClientVars
    /\ UNCHANGED EnvVars

\* handle_client, awaiting the length bytes inside receive_message
handle_client_len(c) ==
    /\ srv = "running"
    /\ hpc[c] = "read_len"
    /\ LET r == receive_len(stream[c], cstate[c] = "closed") IN
        /\ r.st # "block"
        /\ stream' = [stream EXCEPT ![c] = r.rest]
        /\ IF r.st = "payload"
           THEN /\ hpc' = [hpc EXCEPT ![c] = "read_payload"]
                /\ need' = [need EXCEPT ![c] = r.need]
                /\ UNCHANGED <<rcv, errs>>
           ELSE /\ hpc' = [hpc EXCEPT ![c] = "save"]
                /\ rcv' = [rcv EXCEPT ![c] = r.why]
                /\ errs' = [errs EXCEPT ![c] = @ + 1]
                /\ UNCHANGED need
    /\ UNCHANGED <<backlog, dispatched, maps, hmap, serving, srv>>
    /\ UNCHANGED ClientVars
    /\ UNCHANGED EnvVars

\* handle_client, awaiting the payload inside receive_message, then the match
\* on the message up to the next await
handle_client_payload(c) ==
    /\ srv = "running"
    /\ hpc[c] = "read_payload"
    /\ LET r == receive_payload(stream[c], cstate[c] = "closed", need[c]) IN
        /\ r.st # "block"
        /\ stream' = [stream EXCEPT ![c] = r.rest]
        /\ rcv' = [rcv EXCEPT ![c] = r.why]
        /\ IF r.st = "none"
           THEN /\ errs' = [errs EXCEPT ![c] = @ + 1]
                /\ hpc' = [hpc EXCEPT ![c] = "save"]
                /\ UNCHANGED <<dispatched, maps, files>>
           ELSE IF r.msg.kind \in {"File", "Image"}
           THEN \* receive_file(..)? leaves handle_client when the write fails
                /\ \E ok \in BOOLEAN :
                     /\ hpc' = [hpc EXCEPT ![c] = IF ok THEN "save" ELSE "done"]
                     /\ files' = IF ok
                                 THEN receive_file(file_name(r.msg), r.msg.bytes,
                                                   file_dir(r.msg))
                                 ELSE files
                /\ dispatched' = [dispatched EXCEPT ![c] = Append(@, r.msg)]
                /\ UNCHANGED <<errs, maps>>
           ELSE IF r.msg.kind = "Text"
           THEN /\ hpc' = [hpc EXCEPT ![c] = "save"]
                /\ dispatched' = [dispatched EXCEPT ![c] = Append(@, r.msg)]
                /\ UNCHANGED <<errs, maps, files>>
           ELSE \* Quit: peer_addr().unwrap() can fail once the peer is gone
                \E ok \in (IF cstate[c] = "closed" THEN BOOLEAN ELSE {TRUE}) :
                    IF ok
                    THEN /\ maps' = [maps EXCEPT ![hmap[c]] = @ \ {c}]
                         /\ dispatched' = [dispatched EXCEPT ![c] = Append(@, r.msg)]
                         /\ hpc' = [hpc EXCEPT ![c] = "save"]
                         /\ UNCHANGED <<errs, files>>
                    ELSE /\ hpc' = [hpc EXCEPT ![c] = "panicked"]
                         /\ UNCHANGED <<dispatched, maps, errs, files>>
    /\ UNCHANGED <<backlog, need, hmap, serving, srv>>
    /\ UNCHANGED ClientVars
    /\ UNCHANGED <<now, reply, args, bound, exitcode>>

\* handle_client from Message::save(..).await? to its return
handle_client_save(c) ==
    /\ srv = "running"
    /\ hpc[c] = "save"
    /\ hpc' = [hpc EXCEPT ![c] = "done"]
    /\ UNCHANGED <<backlog, need, rcv, dispatched, errs, maps, hmap, serving, srv>>
    /\ UNCHANGED <<ClientVars, stream>>
    /\ UNCHANGED EnvVars

Next ==
    \/ \E c \in Conns, k \in {"client", "peer"} : connect(c, k)
    \/ \E c \in Conns, line \in MainLines : client_main(c, line)
    \/ \E c \in Conns, x \in PeerItems : peer_write_frame(c, x)
    \/ \E c \in Conns : close(c)
    \/ start_accept
    \/ start_accept_err
    \/ \E c \in Conns : handle_client_len(c)
    \/ \E c \in Conns : handle_client_payload(c)
    \/ \E c \in Conns : handle_client_save(c)

Spec == Init /\ [][Next]_vars

\* -------------------------------------------- synchronous server (lesson-15)
\* sync_start_accept with the registry created anew in each turn of the loop
sync_start_accept_fresh ==
    /\ srv = "running"
    /\ serving = 0
    /\ backlog # <<>>
    /\ LET c == Head(backlog) IN
        /\ backlog' = Tail(backlog)
        /\ maps' = [maps EXCEPT ![ServerMap] = {c}]
        /\ hpc' = [hpc EXCEPT ![c] = "read_len"]
        /\ serving' = c
    /\ UNCHANGED <<need, rcv, dispatched, errs, hmap, srv>>
    /\ UNCHANGED <<ClientVars, stream>>
    /\ UNCHANGED EnvVars

\* one turn of start()'s loop up to the call of handle_client: the peer is
\* inserted into the registry and the loop enters the handler
sync_start_accept ==
    /\ srv = "running"
    /\ serving = 0
    /\ backlog # <<>>
    /\ LET c == Head(backlog) IN
        /\ backlog' = Tail(backlog)
        /\ maps' = [maps EXCEPT ![ServerMap] = @ \cup {c}]
        /\ hpc' = [hpc EXCEPT ![c] = "read_len"]
        /\ serving' = c
    /\ UNCHANGED <<need, rcv, dispatched, errs, hmap, srv>>
    /\ UNCHANGED <<ClientVars, stream>>
    /\ UNCHANGED EnvVars

\* one turn of start()'s loop that leaves start through a `?`: the incoming
\* stream is an error, peer_addr() fails, or one of the two try_clone()
\* calls fails (the second one after the insert)
sync_start_err(at) ==
    /\ srv = "running"
    /\ serving = 0
    /\ backlog # <<>>
    /\ backlog' = Tail(backlog)
    /\ maps' = IF at = "clone2"
               THEN [maps EXCEPT ![ServerMap] = @ \cup {Head(backlog)}]
               ELSE maps
    /\ srv' = "stopped"
    /\ UNCHANGED <<hpc, need, rcv, dispatched, errs, hmap, serving>>
    /\ UNCHANGED <<ClientVars, stream>>
    /\ exitcode' = 0
    /\ UNCHANGED <<files, now, reply, args, bound>>

\* handle_client inside the loop, blocked on the length bytes
sync_handle_client_len(c) ==
    /\ srv = "running"
    /\ serving = c
    /\ hpc[c] = "read_len"
    /\ LET r == receive_len(stream[c], cstate[c] = "closed") IN
        /\ r.st # "block"
        /\ stream' = [stream EXCEPT ![c] = r.rest]
        /\ IF r.st = "payload"
           THEN /\ hpc' = [hpc EXCEPT ![c] = "read_payload"]
                /\ need' = [need EXCEPT ![c] = r.need]
                /\ UNCHANGED <<rcv, errs, serving>>
           ELSE /\ hpc' = [hpc EXCEPT ![c] = "done"]
                /\ rcv' = [rcv EXCEPT ![c] = r.why]
                /\ errs' = [errs EXCEPT ![c] = @ + 1]
                /\ serving' = 0
                /\ UNCHANGED need
    /\ UNCHANGED <<backlog, dispatched, maps, hmap, srv>>
    /\ UNCHANGED ClientVars
    /\ UNCHANGED EnvVars

\* handle_client inside the loop, blocked on the payload, then the match and
\* the return to the loop
sync_handle_client_payload(c) ==
    /\ srv = "running"
    /\ serving = c
    /\ hpc[c] = "read_payload"
    /\ LET r == receive_payload(stream[c], cstate[c] = "closed", need[c]) IN
        /\ r.st # "block"
        /\ stream' = [stream EXCEPT ![c] = r.rest]
        /\ rcv' = [rcv EXCEPT ![c] = r.why]
        /\ IF r.st = "none"
           THEN /\ errs' = [errs EXCEPT ![c] = @ + 1]
                /\ hpc' = [hpc EXCEPT ![c] = "done"]
                /\ serving' = 0
                /\ UNCHANGED <<dispatched, maps, srv, files, exitcode>>
           ELSE IF r.msg.kind \in {"File", "Image"}
           THEN /\ dispatched' = [dispatched EXCEPT ![c] = Append(@, r.msg)]
                /\ \E ok \in BOOLEAN :
                     IF ok
                     THEN /\ files' = sync_receive_file(file_name(r.msg), r.msg.bytes,
                                                        sync_file_dir(r.msg))
                          /\ hpc' = [hpc EXCEPT ![c] = "done"]
                          /\ serving' = 0
                          /\ UNCHANGED <<srv, exitcode>>
                     ELSE \* receive_file(..)? returns the error to start()
                          /\ hpc' = [hpc EXCEPT ![c] = "done"]
                          /\ serving' = 0
                          /\ UNCHANGED <<files, srv, exitcode>>
                /\ UNCHANGED <<errs, maps>>
           ELSE IF r.msg.kind = "Text"
           THEN /\ hpc' = [hpc EXCEPT ![c] = "done"]
                /\ dispatched' = [dispatched EXCEPT ![c] = Append(@, r.msg)]
                /\ serving' = 0
                /\ UNCHANGED <<errs, maps, srv, files, exitcode>>
           ELSE \* Quit: peer_addr().unwrap() panics the only thread
                \E ok \in (IF cstate[c] = "closed" THEN BOOLEAN ELSE {TRUE}) :
                    IF ok
                    THEN /\ maps' = [maps EXCEPT ![hmap[c]] = @ \ {c}]
                         /\ dispatched' = [dispatched EXCEPT ![c] = Append(@, r.msg)]
                         /\ hpc' = [hpc EXCEPT ![c] = "done"]
                         /\ serving' = 0
                         /\ UNCHANGED <<errs, srv, files, exitcode>>
                    ELSE /\ hpc' = [hpc EXCEPT ![c] = "panicked"]
                         /\ srv' = "panicked"
                         /\ exitcode' = PanicExit
                         /\ UNCHANGED <<dispatched, maps, errs, serving, files>>
    /\ UNCHANGED <<backlog, need, hmap>>
    /\ UNCHANGED ClientVars
    /\ UNCHANGED <<now, reply, args, bound>>

NextSync ==
    \/ \E c \in Conns, k \in {"client", "peer"} : connect(c, k)
    \/ \E c \in Conns, line \in MainLines : client_main(c, line)
    \/ \E c \in Conns, x \in PeerItems : peer_write_frame(c, x)
    \/ \E c \in Conns : close(c)
    \/ sync_start_accept
    \/ \E at \in {"accept", "peer_addr", "clone1", "clone2"} : sync_start_err(at)
    \/ \E c \in Conns : sync_handle_client_len(c)
    \/ \E c \in Conns : sync_handle_client_payload(c)

SpecSync == Init /\ [][NextSync]_vars

\* -------------------------------------------- synchronous server (lesson-13)
\* handle_client of lesson-13 from the payload on: receive_file unwraps
\* File::create and write_all, so a file that cannot be created or written
\* panics the thread that runs the accept loop
sync13_handle_client_payload(c) ==
    /\ srv = "running"
    /\ serving = c
    /\ hpc[c] = "read_payload"
    /\ LET r == receive_payload(stream[c], cstate[c] = "closed", need[c]) IN
        /\ r.st # "block"
        /\ stream' = [stream EXCEPT ![c] = r.rest]
        /\ rcv' = [rcv EXCEPT ![c] = r.why]
        /\ IF r.st = "none"
           THEN /\ errs' = [errs EXCEPT ![c] = @ + 1]
                /\ hpc' = [hpc EXCEPT ![c] = "done"]
                /\ serving' = 0
                /\ UNCHANGED <<dispatched, maps, srv, files, exitcode>>
           ELSE IF r.msg.kind \in {"File", "Image"}
           THEN /\ dispatched' = [dispatched EXCEPT ![c] = Append(@, r.msg)]
                /\ \E ok \in BOOLEAN :
                     IF ok
                     THEN /\ files' = sync_receive_file(file_name(r.msg), r.msg.bytes,
                                                        sync_file_dir(r.msg))
                          /\ hpc' = [hpc EXCEPT ![c] = "done"]
                          /\ serving' = 0
                          /\ UNCHANGED <<srv, exitcode>>
                     ELSE \* File::create(..).unwrap() or write_all(..).unwrap()
                          /\ hpc' = [hpc EXCEPT ![c] = "panicked"]
                          /\ srv' = "panicked"
                          /\ exitcode' = PanicExit
                          /\ UNCHANGED <<serving, files>>
                /\ UNCHANGED <<errs, maps>>
           ELSE IF r.msg.kind = "Text"
           THEN /\ hpc' = [hpc EXCEPT ![c] = "done"]
                /\ dispatched' = [dispatched EXCEPT ![c] = Append(@, r.msg)]
                /\ serving' = 0
                /\ UNCHANGED <<errs, maps, srv, files, exitcode>>
           ELSE \* Quit: peer_addr().unwrap() panics the only thread
                \E ok \in (IF cstate[c] = "closed" THEN BOOLEAN ELSE {TRUE}) :
                    IF ok
                    THEN /\ maps' = [maps EXCEPT ![hmap[c]] = @ \ {c}]
                         /\ dispatched' = [dispatched EXCEPT ![c] = Append(@, r.msg)]
                         /\ hpc' = [hpc EXCEPT ![c] = "done"]
                         /\ serving' = 0
                         /\ UNCHANGED <<errs, srv, files, exitcode>>
                    ELSE /\ hpc' = [hpc EXCEPT ![c] = "panicked"]
                         /\ srv' = "panicked"
                         /\ exitcode' = PanicExit
                         /\ UNCHANGED <<dispatched, maps, errs, serving, files>>
    /\ UNCHANGED <<backlog, need, hmap>>
    /\ UNCHANGED ClientVars
    /\ UNCHANGED <<now, reply, args, bound>>

NextSync13 ==
    \/ \E c \in Conns, k \in {"client", "peer"} : connect(c, k)
    \/ \E c \in Conns, line \in MainLines : client_main(c, line)
    \/ \E c \in Conns, x \in PeerItems : peer_write_frame(c, x)
    \/ \E c \in Conns : close(c)
    \/ sync_start_accept
    \/ \E at \in {"accept", "peer_addr", "clone1", "clone2"} : sync_start_err(at)
    \/ \E c \in Conns : sync_handle_client_len(c)
    \/ \E c \in Conns : sync13_handle_client_payload(c)

SpecSync13 == Init13 /\ [][NextSync13]_vars

\* ------------------------------------ the two message types of lesson-09
MaxField == 2      \* longest string or byte field of a message

\* the sequences over S of length up to n
SeqsUpTo(S, n) == UNION {[1..k -> S] : k \in 0..n}

\* the constructible messages with fields of up to MaxField bytes
Messages09 ==
    {Quit}
    \cup {Text(s) : s \in SeqsUpTo({102, 104}, MaxField)}
    \cup {Image(b) : b \in SeqsUpTo({7, 9}, MaxField)}
    \cup {File(s, b) : s \in SeqsUpTo({102, 104}, MaxField),
                       b \in SeqsUpTo({7, 9}, MaxField)}

\* bincode::serialize over the client's enum { File(String), Image(Vec<u8>),
\* Text(String), Quit }: its File variant has the path as its only field
serialize09(m) ==
    CASE m.kind = "File" -> to_le_bytes(0, 4) \o ser_bytes(m.str)
      [] m.kind = "Image" -> to_le_bytes(1, 4) \o ser_bytes(m.bytes)
      [] m.kind = "Text" -> to_le_bytes(2, 4) \o ser_bytes(m.str)
      [] m.kind = "Quit" -> to_le_bytes(3, 4)

\* bincode::deserialize over the server's enum { Text(String),
\* Image(Vec<u8>), File(String, Vec<u8>), Quit }
deserialize09(buf) ==
    LET bad == [ok |-> FALSE, msg |-> Quit] IN
    IF Len(buf) < 4 THEN bad
    ELSE IF buf[2] # 0 \/ buf[3] # 0 \/ buf[4] # 0 THEN bad
    ELSE IF buf[1] = 0 THEN
        LET s == read_bytes(buf, 4) IN
        IF s.ok THEN [ok |-> TRUE, msg |-> Text(s.val)] ELSE bad
    ELSE IF buf[1] = 1 THEN
        LET b == read_bytes(buf, 4) IN
        IF b.ok THEN [ok |-> TRUE, msg |-> Image(b.val)] ELSE bad
    ELSE IF buf[1] = 2 THEN
        LET s == read_bytes(buf, 4) IN
        IF ~s.ok THEN bad
        ELSE LET b == read_bytes(buf, s.next) IN
             IF b.ok THEN [ok |-> TRUE, msg |-> File(s.val, b.val)] ELSE bad
    ELSE IF buf[1] = 3 THEN [ok |-> TRUE, msg |-> Quit]
    ELSE bad

\* the client on connection 1 holds one message to send
InitCodec09 ==
    \E m \in Messages09 :
        /\ cstate = [c \in Conns |-> IF c = 1 THEN "conn" ELSE "init"]
        /\ ckind = [c \in Conns |-> IF c = 1 THEN "client" ELSE "none"]
        /\ input = [c \in Conns |-> <<>>]
        /\ sent = [c \in Conns |-> IF c = 1 THEN <<m>> ELSE <<>>]
        /\ wire = [c \in Conns |-> <<>>]
        /\ net = [c \in Conns |-> <<>>]
        /\ stream = [c \in Conns |-> <<>>]
        /\ backlog = <<>>
        /\ hpc = [c \in Conns |-> "none"]
        /\ need = [c \in Conns |-> 0]
        /\ rcv = [c \in Conns |-> "none"]
        /\ dispatched = [c \in Conns |-> <<>>]
        /\ errs = [c \in Conns |-> 0]
        /\ maps = [i \in 0..MaxConns |-> {}]
        /\ hmap = [c \in Conns |-> ServerMap]
        /\ serving = 0
        /\ srv = "running"
        /\ files = {}
        /\ now = 0
        /\ reply = [c \in Conns |-> <<>>]
        /\ args = <<>>
        /\ bound = AnyPort
        /\ exitcode = -1

\* the client serializes its message with its own type
encode09(c) ==
    /\ sent[c] # <<>>
    /\ wire[c] = <<>>
    /\ wire' = [wire EXCEPT ![c] = serialize09(sent[c][1])]
    /\ stream' = [stream EXCEPT ![c] = serialize09(sent[c][1])]
    /\ UNCHANGED <<cstate, ckind, input, sent, net>>
    /\ UNCHANGED ServerVars
    /\ UNCHANGED EnvVars

\* the server deserializes the bytes with its own type
decode09(c) ==
    /\ stream[c] # <<>>
    /\ rcv[c] = "none"
    /\ LET d == deserialize09(stream[c]) IN
        /\ rcv' = [rcv EXCEPT ![c] = IF d.ok THEN d.msg.kind ELSE "DecodeError"]
        /\ dispatched' = [dispatched EXCEPT ![c] = IF d.ok THEN <<d.msg>> ELSE <<>>]
        /\ errs' = [errs EXCEPT ![c] = IF d.ok THEN @ ELSE @ + 1]
    /\ stream' = [stream EXCEPT ![c] = <<>>]
    /\ hpc' = [hpc EXCEPT ![c] = "done"]
    /\ UNCHANGED <<backlog, need, maps, hmap, serving, srv>>
    /\ UNCHANGED ClientVars
    /\ UNCHANGED EnvVars

NextCodec09 ==
    \/ \E c \in Conns : encode09(c)
    \/ \E c \in Conns : decode09(c)

SpecCodec09 == InitCodec09 /\ [][NextCodec09]_vars

\* ------------------------------------------------- the client's input loop
\* the lines a user types: the four well-formed ones, a text with blanks
\* around it, commands without a separator or without a path, commands that
\* name a missing file, a command behind a blank, a command with a tail
Lines ==
    MainLines
    \cup {<<Space, 104, Space>>,
          DotFile \o PathF,
          DotImage \o PathI,
          DotFile,
          DotFile \o <<Space, 120>>,
          DotImage \o <<Space, 120>>,
          <<Space>> \o DotQuit,
          DotQuit \o <<Space, 120>>}

NextClient ==
    \/ \E c \in Conns : connect(c, "client")
    \/ \E c \in Conns, line \in Lines : client_main(c, line)
    \/ \E c \in Conns : close(c)

SpecClient == Init /\ [][NextClient]_vars

\* ------------------------------------------ client and server of lesson-09
\* what one turn of the lesson-09 client's loop builds from an input line:
\* the command tests look at the line as typed, the match at the trimmed one
build_message09(line) ==
    IF trim(line) = DotQuit THEN [ok |-> TRUE, msg |-> Quit]
    ELSE IF starts_with(line, DotFile) THEN
        LET path == trim(trim_start_matches(line, DotFile)) IN
        [ok |-> read_file(path).ok, msg |-> File(path, <<>>)]
    ELSE IF starts_with(line, DotImage) THEN
        LET i == read_and_convert_image(trim(trim_start_matches(line, DotImage))) IN
        [ok |-> i.ok, msg |-> Image(i.val)]
    ELSE [ok |-> TRUE, msg |-> Text(trim(line))]

\* the bytes one turn of the loop writes for its message: send_file writes a
\* File once; every other message is written by stream.write_all(..)? and
\* again by the write_all inside the `if let Err`
written09(m) ==
    IF m.kind = "File" THEN serialize09(m) ELSE serialize09(m) \o serialize09(m)

\* one turn of the lesson-09 client's loop
client09_main(c, line) ==
    /\ cstate[c] = "conn" /\ ckind[c] = "client"
    /\ ~HasQuit(c)
    /\ TotalSent < MaxSends
    /\ input' = [input EXCEPT ![c] = Append(@, line)]
    /\ LET b == build_message09(line) IN
        IF b.ok
        THEN /\ sent' = [sent EXCEPT ![c] = Append(@, b.msg)]
             /\ wire' = [wire EXCEPT ![c] = @ \o written09(b.msg)]
             /\ stream' = [stream EXCEPT ![c] = @ \o written09(b.msg)]
             /\ UNCHANGED cstate
        ELSE \* send_file(..)? or read_and_convert_image(..)? leaves main
             /\ cstate' = [cstate EXCEPT ![c] = "closed"]
             /\ UNCHANGED <<sent, wire, stream>>
    /\ UNCHANGED <<ckind, net>>
    /\ UNCHANGED ServerVars
    /\ UNCHANGED EnvVars

\* receive_message of the lesson-09 server from its second read_exact:
\* the payload is decoded with the server's own enum
receive_payload09(buf, closed, len) ==
    IF Len(buf) >= len THEN
        LET d == deserialize09(SubSeq(buf, 1, len)) IN
        IF d.ok
        THEN [st |-> "some", why |-> d.msg.kind, rest |-> Drop(buf, len), msg |-> d.msg]
        ELSE [st |-> "none", why |-> "DecodeError", rest |-> Drop(buf, len), msg |-> Quit]
    ELSE IF closed THEN
        [st |-> "none", why |-> "Truncated", rest |-> <<>>, msg |-> Quit]
    ELSE [st |-> "block", why |-> "", rest |-> buf, msg |-> Quit]

\* handle_client of lesson-09 from the payload on: both the File arm and the
\* Image arm call receive_file(&message, directory), which writes only when
\* the message is a File and unwraps File::create and write_all
sync09_handle_client_payload(c) ==
    /\ srv = "running"
    /\ serving = c
    /\ hpc[c] = "read_payload"
    /\ LET r == receive_payload09(stream[c], cstate[c] = "closed", need[c]) IN
        /\ r.st # "block"
        /\ stream' = [stream EXCEPT ![c] = r.rest]
        /\ rcv' = [rcv EXCEPT ![c] = r.why]
        /\ IF r.st = "none"
           THEN /\ errs' = [errs EXCEPT ![c] = @ + 1]
                /\ hpc' = [hpc EXCEPT ![c] = "done"]
                /\ serving' = 0
                /\ UNCHANGED <<dispatched, maps, srv, files, exitcode>>
           ELSE IF r.msg.kind = "File"
           THEN /\ dispatched' = [dispatched EXCEPT ![c] = Append(@, r.msg)]
                /\ \E ok \in BOOLEAN :
                     IF ok
                     THEN /\ files' = sync_receive_file(r.msg.str, r.msg.bytes,
                                                        sync_file_dir(r.msg))
                          /\ hpc' = [hpc EXCEPT ![c] = "done"]
                          /\ serving' = 0
                          /\ UNCHANGED <<srv, exitcode>>
                     ELSE /\ hpc' = [hpc EXCEPT ![c] = "panicked"]
                          /\ srv' = "panicked"
                          /\ exitcode' = PanicExit
                          /\ UNCHANGED <<serving, files>>
                /\ UNCHANGED <<errs, maps>>
           ELSE IF r.msg.kind \in {"Image", "Text"}
           THEN /\ hpc' = [hpc EXCEPT ![c] = "done"]
                /\ dispatched' = [dispatched EXCEPT ![c] = Append(@, r.msg)]
                /\ serving' = 0
                /\ UNCHANGED <<errs, maps, srv, files, exitcode>>
           ELSE \E ok \in (IF cstate[c] = "closed" THEN BOOLEAN ELSE {TRUE}) :
                    IF ok
                    THEN /\ maps' = [maps EXCEPT ![hmap[c]] = @ \ {c}]
                         /\ dispatched' = [dispatched EXCEPT ![c] = Append(@, r.msg)]
                         /\ hpc' = [hpc EXCEPT ![c] = "done"]
                         /\ serving' = 0
                         /\ UNCHANGED <<errs, srv, files, exitcode>>
                    ELSE /\ hpc' = [hpc EXCEPT ![c] = "panicked"]
                         /\ srv' = "panicked"
                         /\ exitcode' = PanicExit
                         /\ UNCHANGED <<dispatched, maps, errs, serving, files>>
    /\ UNCHANGED <<backlog, need, hmap>>
    /\ UNCHANGED ClientVars
    /\ UNCHANGED <<now, reply, args, bound>>

NextSync09 ==
    \/ \E c \in Conns, k \in {"client", "peer"} : connect(c, k)
    \/ \E c \in Conns, line \in MainLines : client09_main(c, line)
    \/ \E c \in Conns, x \in PeerItems : peer_write_frame(c, x)
    \/ \E c \in Conns : close(c)
    \/ sync_start_accept
    \/ \E at \in {"accept", "peer_addr", "clone1", "clone2"} : sync_start_err(at)
    \/ \E c \in Conns : sync_handle_client_len(c)
    \/ \E c \in Conns : sync09_handle_client_payload(c)

SpecSync09 == Init13 /\ [][NextSync09]_vars

\* ------------------------------------- asynchronous server and its files
MaxTime == 1       \* seconds that pass

\* the File and Image messages peers send: the same name with two contents,
\* a name that holds a parent-directory sequence, two images
StoreItems ==
    {File(<<102>>, <<7>>), File(<<102>>, <<8>>),
     File(<<46, 46, Slash, 120>>, <<7>>),
     Image(<<9>>), Image(<<8>>)}

\* a second passes on the server's clock
tick ==
    /\ now < MaxTime
    /\ now' = now + 1
    /\ UNCHANGED <<files, reply, args, bound, exitcode>>
    /\ UNCHANGED ClientVars
    /\ UNCHANGED <<ServerVars, stream>>

NextStore ==
    \/ \E c \in Conns : connect(c, "peer")
    \/ \E c \in Conns, x \in StoreItems : peer_write_frame(c, x)
    \/ \E c \in Conns : close(c)
    \/ start_accept
    \/ \E c \in Conns : handle_client_len(c)
    \/ \E c \in Conns : handle_client_payload(c)
    \/ \E c \in Conns : handle_client_save(c)
    \/ tick

SpecStore == Init /\ [][NextStore]_vars

\* --------------------------------- the client with its input from a pipe
\* several lines that are available on standard input at the same time
PipedLines == {<<a, b>> : a, b \in MainLines}

\* one turn of the client's loop when the lines of avail are all available:
\* the BufReader made for this turn takes them from standard input into its
\* buffer, read_line returns the first, and the rest goes with the BufReader
\* at the end of the turn
client_main_piped(c, avail) ==
    /\ cstate[c] = "conn" /\ ckind[c] = "client"
    /\ ~HasQuit(c)
    /\ TotalSent < MaxSends
    /\ input' = [input EXCEPT ![c] = @ \o avail]
    /\ LET b == build_message(Head(avail)) IN
        IF b.ok
        THEN /\ sent' = [sent EXCEPT ![c] = Append(@, b.msg)]
             /\ wire' = [wire EXCEPT ![c] = @ \o send_message(b.msg)]
             /\ stream' = [stream EXCEPT ![c] = @ \o send_message(b.msg)]
             /\ UNCHANGED cstate
        ELSE /\ cstate' = [cstate EXCEPT ![c] = "closed"]
             /\ UNCHANGED <<sent, wire, stream>>
    /\ UNCHANGED <<ckind, net>>
    /\ UNCHANGED ServerVars
    /\ UNCHANGED EnvVars

NextPipe ==
    \/ \E c \in Conns : connect(c, "client")
    \/ \E c \in Conns, line \in MainLines : client_main(c, line)
    \/ \E c \in Conns, avail \in PipedLines : client_main_piped(c, avail)
    \/ \E c \in Conns : close(c)

SpecPipe == Init /\ [][NextPipe]_vars

\* ------------------------------------------------ the servers' main and bind
MaxArgs == 2       \* command-line arguments after the program name

\* argument strings: hosts without a port, addresses with a port, a port
ArgTokens == {"0.0.0.0", "localhost", "127.0.0.1:8080", "[::]:9000", "8080"}

ArgLists == SeqsUpTo(ArgTokens, MaxArgs)

\* "0.0.0.0:11111"
AnyDefaultPort == <<"0.0.0.0", "11111">>

\* ToSocketAddrs: an address is a host and a port, given as two parts or as
\* one string that holds both
has_port(addr) ==
    Len(addr) = 2 \/ (Len(addr) = 1 /\ addr[1] \in {"127.0.0.1:8080", "[::]:9000"})

\* a server process has been started with some arguments
InitMain ==
    \E a \in ArgLists :
        /\ cstate = [c \in Conns |-> "init"]
        /\ ckind = [c \in Conns |-> "none"]
        /\ input = [c \in Conns |-> <<>>]
        /\ sent = [c \in Conns |-> <<>>]
        /\ net = [c \in Conns |-> <<>>]
        /\ wire = [c \in Conns |-> <<>>]
        /\ stream = [c \in Conns |-> <<>>]
        /\ backlog = <<>>
        /\ hpc = [c \in Conns |-> "none"]
        /\ need = [c \in Conns |-> 0]
        /\ rcv = [c \in Conns |-> "none"]
        /\ dispatched = [c \in Conns |-> <<>>]
        /\ errs = [c \in Conns |-> 0]
        /\ maps = [i \in 0..MaxConns |-> {}]
        /\ hmap = [c \in Conns |-> ServerMap]
        /\ serving = 0
        /\ srv = "starting"
        /\ files = {}
        /\ now = 0
        /\ reply = [c \in Conns |-> <<>>]
        /\ args = a
        /\ bound = <<>>
        /\ exitcode = -1

\* TcpListener::bind(addr) and what main does with its result: the listener
\* is bound, or start returns the error, main prints it and returns
bind(addr) ==
    \E ok \in (IF has_port(addr) THEN BOOLEAN ELSE {FALSE}) :
        IF ok
        THEN /\ bound' = addr
             /\ srv' = "running"
             /\ UNCHANGED exitcode
        ELSE /\ srv' = "stopped"
             /\ exitcode' = 0
             /\ UNCHANGED bound

\* the address start(bind_address) of lesson-15 binds
start15_address(bind_address) ==
    IF bind_address = <<>> THEN Localhost11111
    ELSE IF bind_address = <<"0.0.0.0">> THEN AnyDefaultPort
    ELSE bind_address

\* the address start(bind_address) of lesson-16 binds
start16_address(bind_address) ==
    IF bind_address = <<>> THEN Localhost11111 ELSE bind_address

\* main of lesson-13: the address comes from the number of arguments
main13 ==
    /\ srv = "starting"
    /\ IF args = <<>> THEN bind(AnyPort)
       ELSE IF args = <<"0.0.0.0">> THEN bind(AnyDefaultPort)
       ELSE IF Len(args) = 2 THEN bind(args)
       ELSE \* usage, process::exit(1)
            /\ srv' = "stopped"
            /\ exitcode' = 1
            /\ UNCHANGED bound
    /\ UNCHANGED <<files, now, reply, args>>
    /\ UNCHANGED ClientVars
    /\ UNCHANGED <<backlog, hpc, need, rcv, dispatched, errs, maps, hmap, serving, stream>>

\* main of lesson-15: start(args.get(1))
main15 ==
    /\ srv = "starting"
    /\ bind(start15_address(SubSeq(args, 1, IF args = <<>> THEN 0 ELSE 1)))
    /\ UNCHANGED <<files, now, reply, args>>
    /\ UNCHANGED ClientVars
    /\ UNCHANGED <<backlog, hpc, need, rcv, dispatched, errs, maps, hmap, serving, stream>>

\* main of lesson-16: start(None), whatever the arguments
main16 ==
    /\ srv = "starting"
    /\ bind(start16_address(<<>>))
    /\ UNCHANGED <<files, now, reply, args>>
    /\ UNCHANGED ClientVars
    /\ UNCHANGED <<backlog, hpc, need, rcv, dispatched, errs, maps, hmap, serving, stream>>

NextMain ==
    \/ main13
    \/ main15
    \/ main16

SpecMain == InitMain /\ [][NextMain]_vars

\* ------------------------------- one connection whose bytes arrive in pieces
MaxChunk == 2      \* bytes that arrive together

\* a frame that declares its full length and lacks its last payload byte
cut_frame(m) ==
    to_be_bytes(Len(serialize(m))) \o SubSeq(serialize(m), 1, Len(serialize(m)) - 1)

\* a whole serialized message behind a length that declares one byte more
pad_frame(m) == to_be_bytes(Len(serialize(m)) + 1) \o serialize(m)

\* what the peer of the connection writes before it stops
ReadInputs ==
    {write_frame(payload_of(x)) : x \in PeerItems}
    \cup {cut_frame(m) : m \in MessageType}
    \cup {pad_frame(m) : m \in MessageType}
    \cup {send_message(m) : m \in MessageType}
    \cup {<<>>, <<0, 0>>}
    \cup {write_frame(payload_of(x)) \o write_frame(serialize(Text(<<104>>))) :
            x \in {Text(<<104>>), Malformed, EmptyFrame}}

\* connection 1 has been accepted by the asynchronous server and its peer
\* has written b, none of which has arrived yet
InitRead ==
    \E b \in ReadInputs :
        /\ cstate = [c \in Conns |-> IF c = 1 THEN "conn" ELSE "init"]
        /\ ckind = [c \in Conns |-> IF c = 1 THEN "peer" ELSE "none"]
        /\ input = [c \in Conns |-> <<>>]
        /\ sent = [c \in Conns |-> <<>>]
        /\ wire = [c \in Conns |-> IF c = 1 THEN b ELSE <<>>]
        /\ net = [c \in Conns |-> IF c = 1 THEN b ELSE <<>>]
        /\ stream = [c \in Conns |-> <<>>]
        /\ backlog = <<>>
        /\ hpc = [c \in Conns |-> IF c = 1 THEN "read_len" ELSE "none"]
        /\ need = [c \in Conns |-> 0]
        /\ rcv = [c \in Conns |-> "none"]
        /\ dispatched = [c \in Conns |-> <<>>]
        /\ errs = [c \in Conns |-> 0]
        /\ maps = [i \in 0..MaxConns |-> {}]
        /\ hmap = [c \in Conns |-> IF c = 1 THEN 1 ELSE ServerMap]
        /\ serving = 0
        /\ srv = "running"
        /\ files = {}
        /\ now = 0
        /\ reply = [c \in Conns |-> <<>>]
        /\ args = <<>>
        /\ bound = Localhost11111
        /\ exitcode = -1

\* the next k bytes on their way arrive at the server's socket
deliver(c, k) ==
    /\ k <= Len(net[c])
    /\ stream' = [stream EXCEPT ![c] = @ \o SubSeq(net[c], 1, k)]
    /\ net' = [net EXCEPT ![c] = Drop(@, k)]
    /\ UNCHANGED <<cstate, ckind, input, sent, wire>>
    /\ UNCHANGED ServerVars
    /\ UNCHANGED EnvVars

NextRead ==
    \/ \E c \in Conns, k \in 1..MaxChunk : deliver(c, k)
    \/ \E c \in Conns : close(c)
    \/ \E c \in Conns : handle_client_len(c)
    \/ \E c \in Conns : handle_client_payload(c)
    \/ \E c \in Conns : handle_client_save(c)

SpecRead == InitRead /\ [][NextRead]_vars

\* the chunked read with a scheduler that runs a handler whose read can
\* complete: the runtime polls a task that is ready, and read_exact returns
\* once its bytes or the end of the stream are there
SpecReadFair ==
    /\ InitRead
    /\ [][NextRead]_vars
    /\ \A c \in Conns :
        /\ WF_vars(handle_client_len(c))
        /\ WF_vars(handle_client_payload(c))
        /\ WF_vars(handle_client_save(c))

\* ------------------------------------- the client at the end of its input
\* standard input of the connected client c reaches its end; cstate "eof"
\* is a connected client that has no further input
stdin_eof(c) ==
    /\ cstate[c] = "conn" /\ ckind[c] = "client"
    /\ ~HasQuit(c)
    /\ cstate' = [cstate EXCEPT ![c] = "eof"]
    /\ UNCHANGED <<ckind, input, sent, wire, net, stream>>
    /\ UNCHANGED ServerVars
    /\ UNCHANGED EnvVars

\* one turn of the client's loop at the end of input: read_line returns
\* Ok(0) and leaves the line empty, and the turn goes on as for any line
client_main_eof(c) ==
    /\ cstate[c] = "eof" /\ ckind[c] = "client"
    /\ ~HasQuit(c)
    /\ TotalSent < MaxSends
    /\ LET b == build_message(<<>>) IN
        IF b.ok
        THEN /\ sent' = [sent EXCEPT ![c] = Append(@, b.msg)]
             /\ wire' = [wire EXCEPT ![c] = @ \o send_message(b.msg)]
             /\ stream' = [stream EXCEPT ![c] = @ \o send_message(b.msg)]
             /\ UNCHANGED cstate
        ELSE /\ cstate' = [cstate EXCEPT ![c] = "closed"]
             /\ UNCHANGED <<sent, wire, stream>>
    /\ UNCHANGED <<ckind, input, net>>
    /\ UNCHANGED ServerVars
    /\ UNCHANGED EnvVars

NextEof ==
    \/ \E c \in Conns : connect(c, "client")
    \/ \E c \in Conns, line \in MainLines : client_main(c, line)
    \/ \E c \in Conns : stdin_eof(c)
    \/ \E c \in Conns : client_main_eof(c)
    \/ \E c \in Conns : close(c)

SpecEof == Init /\ [][NextEof]_vars

TypeOK ==
    /\ cstate \in [Conns -> {"init", "conn", "eof", "closed"}]
    /\ ckind \in [Conns -> {"none", "client", "peer"}]
    /\ hpc \in [Conns -> {"none", "read_len", "read_payload", "save", "done", "panicked"}]
    /\ serving \in 0..MaxConns
    /\ srv \in {"starting", "running", "stopped", "panicked"}
    /\ \A c \in Conns : maps[hmap[c]] \subseteq Conns

\* ------------------------------------------------------------- properties
RECURSIVE FramesOf(_)
\* the byte stream that carries the messages ms as length-prefixed frames
FramesOf(ms) ==
    IF ms = <<>> THEN <<>>
    ELSE write_frame(serialize(Head(ms))) \o FramesOf(Tail(ms))

\* the handler of c has returned (or its task has died)
Finished(c) == hpc[c] \in {"done", "panicked"}

\* the handler of c is suspended in a read_exact that cannot complete yet
HandlerWaiting(c) ==
    \/ hpc[c] = "read_len" /\ receive_len(stream[c], cstate[c] = "closed").st = "block"
    \/ hpc[c] = "read_payload"
       /\ receive_payload(stream[c], cstate[c] = "closed", need[c]).st = "block"

\* C1: what the client program writes for its messages is the sequence of
\* their frames (4-byte big-endian length, then the serialized message), and
\* receive_message on it yields the message sent, never a rejection.
C1_FrameIntegrity ==
    \A c \in Conns : ckind[c] = "client" =>
        /\ wire[c] = FramesOf(sent[c])
        /\ rcv[c] \notin {"Empty", "DecodeError"}
        /\ (rcv[c] \in {"Text", "File", "Image", "Quit"} => dispatched[c] = <<sent[c][1]>>)

\* C2: a handler that has returned has seen its stream close or a Quit; after
\* a Text, File or Image it is still reading frames.
C2_HandlerLoops ==
    \A c \in Conns : hpc[c] = "done" => rcv[c] \in {"Quit", "Closed", "Truncated"}

\* C3: once a peer has sent its messages m1..mk as frames and gone and the
\* handler has returned, the handler has run the arms of exactly m1..mk, in
\* that order.
C3_InOrderNoneSkipped ==
    \A c \in Conns :
        (/\ ckind[c] = "peer"
         /\ cstate[c] = "closed"
         /\ hpc[c] = "done"
         /\ \A i \in 1..Len(sent[c]) : sent[c][i] \in MessageType)
        => dispatched[c] = sent[c]

\* C4: while a handler waits in a read for bytes of its own connection, the
\* accept loop is not inside that handler: it is at accept.
C4_AcceptNeverBlocks ==
    \A c \in Conns : HandlerWaiting(c) => serving = 0

AllClientsQuit ==
    \A c \in Conns :
        /\ ckind[c] = "client"
        /\ sent[c] = <<Quit>>
        /\ cstate[c] = "closed"
        /\ Finished(c)

\* C5: after every client has connected, sent Quit with the client program
\* and been handled, the server's registry is empty and each Quit has run
\* the removal of its client's entry.
C5_RegistryConsistency ==
    AllClientsQuit =>
        /\ maps[ServerMap] = {}
        /\ \A c \in Conns : dispatched[c] = <<Quit>>

\* C6: while a handler is active the server's registry holds its peer address.
C6_InsertedOnAccept ==
    \A c \in Conns :
        hpc[c] \in {"read_len", "read_payload", "save"} => c \in maps[ServerMap]

\* C7: every key of the registry belongs to a connection whose handler has
\* not finished.
C7_NoStaleEntries ==
    \A c \in maps[ServerMap] : ~Finished(c)

\* C8: the handlers act on the accept loop's map, the one registry.
C8_OneSharedRegistry ==
    \A c \in Conns : hpc[c] # "none" => hmap[c] = ServerMap

\* C9: with a malformed frame on one connection and a Text on another, both
\* handled, the error is logged once and the handler of the malformed
\* connection has not returned: it awaits further frames.
C9_HandlerIsolation ==
    \A a \in Conns : \A b \in Conns \ {a} :
        (/\ sent[a] = <<Malformed>> /\ rcv[a] = "DecodeError"
         /\ sent[b] = <<Text(<<104>>)>> /\ dispatched[b] = sent[b])
        => (errs[a] = 1 /\ ~Finished(a))

\* C10: a well-formed frame that follows an undecodable one on the same
\* connection is read and dispatched.
C10_DecodeErrorNonFatal ==
    \A c \in Conns :
        (/\ Len(sent[c]) = 2
         /\ sent[c][1] = Malformed
         /\ sent[c][2] \in MessageType
         /\ cstate[c] = "closed"
         /\ Finished(c))
        => dispatched[c] = <<sent[c][2]>>

\* the handler of c is past its receive_message
Received(c) == hpc[c] \in {"save", "done", "panicked"}

\* b declares a payload length N > 0 and holds fewer than N payload bytes
TruncatedInput(b) ==
    Len(b) >= 4 /\ from_be_bytes(SubSeq(b, 1, 4)) > Len(b) - 4

\* C12: when the peer declares N > 0 and closes after fewer than N payload
\* bytes, receive_message fails: no message is built from the bytes that
\* came, no arm runs, the registries stay as they were, and the failure is
\* logged once.
C12_TruncationDetected ==
    \A c \in Conns : TruncatedInput(wire[c]) =>
        /\ dispatched[c] = <<>>
        /\ \A i \in 0..MaxConns : maps[i] = {}
        /\ Received(c) => (rcv[c] = "Truncated" /\ errs[c] = 1)

\* C12 witness: a handler has returned after a truncated frame whose bytes
\* would have decoded to a message on their own
C12_Witness ==
    \E c \in Conns :
        /\ TruncatedInput(wire[c])
        /\ deserialize(Drop(wire[c], 4)).ok
        /\ hpc[c] = "done"
        /\ rcv[c] = "Truncated"

\* receive_message applied to all of b at once, the peer having closed
OneShot(b) ==
    LET r == receive_len(b, TRUE) IN
    IF r.st = "payload"
    THEN receive_payload(r.rest, TRUE, r.need)
    ELSE [st |-> r.st, why |-> r.why, rest |-> r.rest, msg |-> Quit]

\* C15: however the bytes of a connection are split on arrival, once
\* receive_message has returned, its outcome, the message it hands over and
\* the bytes it leaves unread are those of one read of the whole input; in
\* particular it has not returned before the bytes it consumes had arrived.
C15_PartialReadIndependence ==
    \A c \in Conns : Received(c) =>
        LET o == OneShot(wire[c]) IN
        /\ rcv[c] = o.why
        /\ stream[c] \o net[c] = o.rest
        /\ (o.st = "some" /\ hpc[c] # "panicked") => dispatched[c] = <<o.msg>>
        /\ o.st # "some" => dispatched[c] = <<>>

\* C15 witness: a Text frame of 17 bytes, arrived in pieces of at most
\* MaxChunk bytes from a peer that is still connected, has been dispatched
C15_Witness ==
    \E c \in Conns :
        /\ hpc[c] = "done"
        /\ cstate[c] = "conn"
        /\ wire[c] = write_frame(serialize(Text(<<104>>)))
        /\ dispatched[c] = <<Text(<<104>>)>>

\* C11: a transport error (peer closed, truncated read, zero-length frame)
\* or a Quit, whether or not its peer is still connected, ends at most the
\* handler of that connection: the server process survives it.
C11_TransportErrorsContained ==
    \A c \in Conns :
        rcv[c] \in {"Closed", "Truncated", "Empty", "Quit"} => srv # "panicked"

\* what receive_message has handed to the handler of c: every failing path
\* of receive_message ends in `return None` (or the None arm of the decode)
returned(c) ==
    IF rcv[c] = "none" THEN "pending"
    ELSE IF rcv[c] \in {"Closed", "Truncated", "Empty", "DecodeError"} THEN "None"
    ELSE "Some"

\* C13: the handler can tell an undecodable payload from a dead stream: the
\* value receive_message returns after a decode error differs from the one
\* it returns after the peer closed before or in the middle of a frame.
C13_DistinguishableOutcomes ==
    \A c, d \in Conns :
        (/\ Received(c) /\ rcv[c] = "DecodeError"
         /\ Received(d) /\ rcv[d] \in {"Closed", "Truncated"})
        => returned(c) # returned(d)

AtZeroLength(c) ==
    /\ hpc[c] = "read_len"
    /\ Len(stream[c]) >= 4
    /\ from_be_bytes(SubSeq(stream[c], 1, 4)) = 0

C16_PersistenceErrorDropsMessageOnly ==
    \A c \in Conns :
        rcv[c] \in {"File", "Image"} => (hpc[c] # "panicked" /\ srv # "panicked")

\* C17: once the server is bound, no error of a single message or a single
\* connection (receive, decode, persistence, peer address, clone, accept)
\* stops the accept loop: the server keeps accepting.
C17_ErrorContainment == srv = "running"

\* C18: the message the server's type decodes from the bytes the client's
\* type encoded for m is m: same variant, equal fields.
C18_CodecRoundTrip ==
    \A c \in Conns : rcv[c] # "none" => dispatched[c] = sent[c]

\* the translation of an input line as the claim C19 words it: exactly
\* `.quit` is Quit, `.file ` and `.image ` followed by a path are File and
\* Image of what the path holds, every other line is Text of the line itself
Claimed(line) ==
    IF line = DotQuit THEN [ok |-> TRUE, msg |-> Quit]
    ELSE IF starts_with(line, DotFile \o <<Space>>) THEN
        LET path == Drop(line, Len(DotFile) + 1)
            f == read_file(path)
        IN  [ok |-> f.ok, msg |-> File(path, f.val)]
    ELSE IF starts_with(line, DotImage \o <<Space>>) THEN
        LET i == read_and_convert_image(Drop(line, Len(DotImage) + 1))
        IN  [ok |-> i.ok, msg |-> Image(i.val)]
    ELSE [ok |-> TRUE, msg |-> Text(line)]

\* C19: every message the client has sent is the claimed translation of the
\* input line it was built from, and no line is read after a `.quit`.
C19_CommandTranslation ==
    \A c \in Conns :
        /\ \A i \in 1..Len(sent[c]) :
              Claimed(input[c][i]).ok /\ sent[c][i] = Claimed(input[c][i]).msg
        /\ \A i \in 1..(Len(input[c]) - 1) : input[c][i] # DotQuit

\* C20: when the file or image named by the last input line could not be
\* read, nothing was sent for that line and the session goes on: the
\* connection is still open for the next line.
C20_ReadFailureSkipsSend ==
    \A c \in Conns :
        (input[c] # <<>> /\ ~build_message(input[c][Len(input[c])]).ok) =>
            /\ Len(sent[c]) = Len(input[c]) - 1
            /\ cstate[c] = "conn"

\* C21: when the client's last message is the Quit it wrote for `.quit`,
\* and the server's handler has consumed what the client wrote and has
\* returned, the client's entry is no longer in the server's registry.
C21_QuitEndToEnd ==
    \A c \in Conns :
        (ckind[c] = "client" /\ HasQuit(c) /\ hpc[c] = "done" /\ stream[c] = <<>>)
        => c \notin maps[ServerMap]

\* a file with this content exists under directory with the time-qualified
\* name of filename, for some second up to now
Persisted(directory, filename, content) ==
    \E f \in files, t \in 0..now :
        f.path = filepath(directory, t, filename) /\ f.content = content

\* C22: when the client was given `.file p` for a readable file, and the
\* server's handler has read what the client wrote and has returned, the
\* message sent carries the name and the bytes of the file and a file named
\* <timestamp>_<name> with exactly these bytes exists under the files
\* directory.
C22_FileTransfer ==
    \A c \in Conns :
        (/\ ckind[c] = "client"
         /\ input[c] = <<DotFile \o <<Space>> \o PathF>>
         /\ Finished(c))
        => /\ sent[c] = <<File(PathF, read_file(PathF).val)>>
           /\ Persisted(FilesDir, PathF, read_file(PathF).val)

\* the path names an entry of directory itself: directory, one separator,
\* and a name without a separator
DirectlyInside(path, directory) ==
    /\ Len(path) > Len(directory) + 1
    /\ SubSeq(path, 1, Len(directory) + 1) = directory \o <<Slash>>
    /\ \A i \in (Len(directory) + 2)..Len(path) : path[i] # Slash

\* C24: every file the server has written lies directly inside the files
\* directory or the images directory, whatever name the client supplied.
C24_PathTraversalSafety ==
    \A f \in files :
        DirectlyInside(f.path, FilesDir) \/ DirectlyInside(f.path, ImagesDir)

\* C25: a File or Image message that is persisted adds a file and leaves
\* every file written before as it was: no two writes go to the same path.
C25_UniquePersistedNames ==
    [][\A c \in Conns :
        (/\ hpc[c] = "read_payload"
         /\ hpc'[c] = "save"
         /\ rcv'[c] \in {"File", "Image"})
        => (files \subseteq files' /\ Cardinality(files') = Cardinality(files) + 1)]_vars

\* C26: receive_file returns Ok for every filename and content: whenever
\* the handler has called it for a File message, a file with the content
\* exists at <directory>/<timestamp>_<filename>.
C26_ReceiveFileOk ==
    [][\A c \in Conns :
        (hpc[c] = "read_payload" /\ rcv'[c] = "File")
        => LET m == dispatched'[c][Len(dispatched'[c])] IN
           [path |-> filepath(FilesDir, now, m.str), content |-> m.bytes] \in files']_vars

\* C23: every Image message the server has received is persisted under the
\* images directory as <timestamp>_received_image with exactly its bytes,
\* and its handler has not ended.
C23_ImageTransfer ==
    \A c \in Conns : rcv[c] = "Image" =>
        /\ \E f \in files, t \in 0..now :
              /\ f.path = sync_filepath(ImagesDir \o <<Slash>>, t, ReceivedImage)
              /\ f.content = dispatched[c][Len(dispatched[c])].bytes
        /\ ~Finished(c)

RECURSIVE Once09(_)
\* the bytes that carry each of the messages ms once, as lesson-09 encodes them
Once09(ms) ==
    IF ms = <<>> THEN <<>> ELSE serialize09(Head(ms)) \o Once09(Tail(ms))

\* C29: the server has written no byte to any connection, and what a client
\* has written holds each of its messages once: nothing is sent again.
C29_FireAndForget ==
    \A c \in Conns :
        /\ reply[c] = <<>>
        /\ ckind[c] = "client" => wire[c] = Once09(sent[c])

RECURSIVE Expected(_)
\* one message for each of the lines, in order, up to the first Quit
Expected(lines) ==
    IF lines = <<>> THEN <<>>
    ELSE LET m == build_message(Head(lines)).msg IN
         IF m = Quit THEN <<m>> ELSE <<m>> \o Expected(Tail(lines))

RECURSIVE Once(_)
\* the bytes send_message writes for each of the messages ms, once each
Once(ms) == IF ms = <<>> THEN <<>> ELSE send_message(Head(ms)) \o Once(Tail(ms))

\* C30: the messages a client has written are one for each line it has taken
\* from standard input, in input order up to `.quit`, and each has been
\* written once.
C30_OneMessagePerLine ==
    \A c \in Conns : ckind[c] = "client" =>
        /\ sent[c] = Expected(input[c])
        /\ wire[c] = Once(sent[c])

\* the address the claim C27 assigns to the given arguments
ClaimedBind(given) ==
    IF given = <<>> THEN AnyPort
    ELSE IF given = <<"0.0.0.0">> THEN AnyDefaultPort
    ELSE given

\* C27: a server that is listening is bound to an ephemeral port on all
\* interfaces when no address was given, to all interfaces on port 11111
\* when the address given is 0.0.0.0, and otherwise to the address given.
C27_BindAddressSelection ==
    srv = "running" => bound = ClaimedBind(args)

\* C28: a server process that has ended without a bound listener has ended
\* with exit code 1.
C28_BindFailureExitCode ==
    (srv = "stopped" /\ bound = <<>>) => exitcode = 1

\* C31: in the synchronous server every change of the registry is the
\* insert of the connection that is being accepted or the remove of the
\* connection whose own handler is handling its Quit; no other step, and no
\* handler on behalf of another connection, changes it.
C31_RegistryFrameCondition ==
    [][maps' # maps =>
        /\ \A i \in Conns : maps'[i] = maps[i]
        /\ \/ /\ backlog # <<>>
              /\ backlog' = Tail(backlog)
              /\ maps'[ServerMap] = maps[ServerMap] \cup {Head(backlog)}
           \/ \E c \in Conns :
              /\ serving = c
              /\ hpc[c] = "read_payload"
              /\ rcv'[c] = "Quit"
              /\ maps'[ServerMap] = maps[ServerMap] \ {c}]_vars

\* C31 witness: a handler has removed its own entry on Quit and the entry
\* of another connection, handled before, is still in the registry
C31_Witness ==
    \E c \in Conns :
        /\ rcv[c] = "Quit"
        /\ hpc[c] = "done"
        /\ c \notin maps[ServerMap]
        /\ \E d \in Conns \ {c} : d \in maps[ServerMap] /\ hpc[d] = "done"

\* C32: in the asynchronous server every handler works on a registry object
\* of its own, and the registry held by the accept loop is empty: it is
\* never inserted into and no handler's remove reaches it.
C32_AcceptLoopMapEmpty ==
    /\ maps[ServerMap] = {}
    /\ \A c \in Conns : hpc[c] # "none" => (hmap[c] = c /\ hmap[c] # ServerMap)

\* C32 witness: a handler has run its Quit arm, remove included, and has
\* returned
C32_Witness ==
    \E c \in Conns :
        /\ rcv[c] = "Quit"
        /\ hpc[c] = "done"
        /\ dispatched[c] = <<Quit>>

\* ------------------------------------------------- the registry, peers only
\* what the peers of the asynchronous server write: the message that reaches
\* the remove, one that does not, and a frame that fails to decode
RegistryItems == {Quit, Text(<<104>>), Malformed}

\* the asynchronous server with its peers
NextRegistry ==
    \/ \E c \in Conns : connect(c, "peer")
    \/ \E c \in Conns, x \in RegistryItems : peer_write_frame(c, x)
    \/ \E c \in Conns : close(c)
    \/ start_accept
    \/ \E c \in Conns : handle_client_len(c)
    \/ \E c \in Conns : handle_client_payload(c)
    \/ \E c \in Conns : handle_client_save(c)

SpecRegistry == Init /\ [][NextRegistry]_vars

\* the synchronous server with peers that write any frame
NextSyncRegistry ==
    \/ \E c \in Conns : connect(c, "peer")
    \/ \E c \in Conns, x \in PeerItems : peer_write_frame(c, x)
    \/ \E c \in Conns : close(c)
    \/ sync_start_accept
    \/ \E c \in Conns : sync_handle_client_len(c)
    \/ \E c \in Conns : sync_handle_client_payload(c)

SpecSyncRegistry == Init /\ [][NextSyncRegistry]_vars

\* the bytes of connection c that receive_message has not consumed
Unread(c) == stream[c] \o net[c]

\* the length declared by the first four bytes the peer wrote
Declared(c) == from_be_bytes(SubSeq(wire[c], 1, 4))

\* C33: one call of receive_message consumes exactly the 4 header bytes when
\* the declared length is zero, exactly the 4 header bytes once the header
\* is read, and exactly 4+N bytes once a payload of declared length N that
\* the peer wrote in full is read, whether or not it decodes; the bytes of
\* the following frame stay unread.
C33_FrameBoundary ==
    \A c \in Conns :
        Len(wire[c]) >= 4 =>
            /\ hpc[c] = "read_payload" =>
                   Unread(c) = SubSeq(wire[c], 5, Len(wire[c]))
            /\ (Received(c) /\ Declared(c) = 0) =>
                   Unread(c) = SubSeq(wire[c], 5, Len(wire[c]))
            /\ (Received(c) /\ Declared(c) > 0
                    /\ Len(wire[c]) >= 4 + Declared(c)) =>
                   Unread(c) = SubSeq(wire[c], 5 + Declared(c), Len(wire[c]))

\* C33 witness: the payload of the first frame was read and failed to
\* decode, and the whole following frame is still unread
C33_Witness ==
    \E c \in Conns :
        /\ hpc[c] = "done"
        /\ rcv[c] = "DecodeError"
        /\ Unread(c) = write_frame(serialize(Text(<<104>>)))
        /\ Len(wire[c]) = 4 + Declared(c) + Len(Unread(c))

\* the peer of c has delivered a complete frame: the header and as many
\* payload bytes as the header declares have arrived
FrameDelivered(c) ==
    LET got == Len(wire[c]) - Len(net[c]) IN
    got >= 4 /\ got >= 4 + Declared(c)

\* C34: a handler whose peer has delivered a complete frame or has closed
\* the connection ends; in particular a peer that declares N bytes, sends
\* fewer and closes does not leave the handler waiting forever.
C34_HandlerTerminates ==
    \A c \in Conns :
        (hpc[c] # "none" /\ (cstate[c] = "closed" \/ FrameDelivered(c)))
            ~> Finished(c)

\* C34 witness: the peer declared more payload bytes than it sent, closed,
\* and the handler, having waited in the payload read, has returned
C34_Witness ==
    \E c \in Conns :
        /\ TruncatedInput(wire[c])
        /\ Len(wire[c]) > 4
        /\ cstate[c] = "closed"
        /\ ~FrameDelivered(c)
        /\ hpc[c] = "done"

\* C35: the client's loop ends when the user enters `.quit` and when
\* standard input reaches its end: a client that has no further input
\* writes no further message.
C35_ClientStopsAtEof ==
    [][\A c \in Conns :
          (ckind[c] = "client" /\ (cstate[c] = "eof" \/ HasQuit(c)))
              => sent'[c] = sent[c] /\ wire'[c] = wire[c]]_vars

\* the message the handler of c dispatches in the step
Dispatching(c) == dispatched'[c][Len(dispatched'[c])]

\* C36: what a handler does is fixed by the outcome of its receive_message,
\* and each outcome has its one effect. When the handler of c gets its
\* outcome and goes on running: Text changes neither files nor registry;
\* File writes <timestamp>_<name> with the client's name under the files
\* directory; Image writes <timestamp>_received_image under the images
\* directory; Quit removes the entry of c from the registry; a receive
\* failure dispatches nothing and changes neither files nor registry.
C36_DispatchTable ==
    [][\A c \in Conns :
          (rcv'[c] # rcv[c] /\ srv' = "running") =>
              /\ rcv'[c] = "Text" => (files' = files /\ maps' = maps)
              /\ rcv'[c] = "File" =>
                    /\ files' = write_file(files,
                                   sync_filepath(FilesDir \o <<Slash>>, now,
                                                 Dispatching(c).str),
                                   Dispatching(c).bytes)
                    /\ maps' = maps
              /\ rcv'[c] = "Image" =>
                    /\ files' = write_file(files,
                                   sync_filepath(ImagesDir \o <<Slash>>, now,
                                                 ReceivedImage),
                                   Dispatching(c).bytes)
                    /\ maps' = maps
              /\ rcv'[c] = "Quit" =>
                    /\ files' = files
                    /\ maps' = [maps EXCEPT ![ServerMap] = @ \ {c}]
              /\ rcv'[c] \notin {"Text", "File", "Image", "Quit"} =>
                    /\ dispatched' = dispatched
                    /\ files' = files
                    /\ maps' = maps]_vars

====
